---- MODULE Spec2Model ----
(***************************************************************************)
(* Model of the reaction-role bot: ConfigManager (src/utils/util.py),      *)
(* RoleManager (src/utils/role.py), the events of BotClient                *)
(* (src/dc_bot.py) and the channel archive of ChannelManager               *)
(* (src/utils/channel.py).                                                 *)
(*                                                                         *)
(* Python values are modelled as follows.  None and the integer 0 are both *)
(* falsy and both written 0 (a message id, a channel id or a role id is     *)
(* never 0 on the platform).  A dict is a sequence of entries in insertion *)
(* order with distinct keys.  A coroutine is a process whose steps are the *)
(* stretches of code between two awaits: the code from one await to the    *)
(* next runs without interleaving on the event loop, and the platform's    *)
(* handling of the awaited request is part of the step that resumes after  *)
(* it.                                                                     *)
(*                                                                         *)
(* src/dc_bot.py holds a second copy of ConfigManager and RoleManager with *)
(* the same code; the model follows the copies under src/utils.            *)
(*                                                                         *)
(* The configurations covered are those in which every key of              *)
(* emoji_to_role has an entry in emoji_ids and every entry carries role_id *)
(* and role_name (the RoleBinding of the data model).                      *)
(***************************************************************************)
EXTENDS Integers, Sequences, FiniteSets, TLC

\* ------------------------------------------------------------- bounds
\* Number of reconciliation passes (ready events) in one behaviour.
NumPasses == 2
\* Number of messages other users or moderators delete in one behaviour.
MaxDeletes == 1
\* Largest number of messages in the history of the archived channel.
MaxMsgs == 2
\* Largest number of attachments in the whole history.
MaxAttachments == 2

\* ------------------------------------------------------------- domains
Passes == 1..NumPasses
\* Keys of emoji_ids / emoji_to_role (emoji ids as JSON object keys).
EmojiKeys == {"11", "12"}
\* role_id values of the configuration: 0 (falsy) or a role id.
RoleIds == {0, 21}
\* The roles the guild may hold.
GuildRoleIds == {21}
\* role_message_id values a configuration file starts with (0 = none).
StoredIds == {0, 1}
\* Channel ids of the configuration (0 = key absent).
TestChannelIds == {0, 31}
BotChannelIds == {0, 32}
\* default_rule_msg values.
RuleMsgs == {"rules"}

\* emoji_ids of the configuration: marker id -> marker name.
EmojiNames == [k \in EmojiKeys |-> "name" \o k]

\* role_name of a configured role id.
RoleNames == [r \in RoleIds |-> IF r = 0 THEN "none" ELSE "member"]

\* emoji_to_role tables: entries in insertion order, keys distinct (so of
\* any length up to the number of keys).
BindingTables ==
    { t \in UNION { [1..n -> [key : EmojiKeys, role_id : RoleIds]] :
                       n \in 0..Cardinality(EmojiKeys) } :
        \A i, j \in DOMAIN t : i # j => t[i].key # t[j].key }

VARIABLES
    config,        \* ConfigManager.config: the configuration in memory
    disk,          \* the backing file: [intact, config]
    setResult,     \* outcome of the last ConfigManager.set: "none", "ok", "raised"
    diskBefore,    \* the backing file before the last ConfigManager.set
    rm,            \* RoleManager's fields
    guildRoles,    \* role ids that resolve in the channel's guild
    liveMsgs,      \* ids of the messages that exist in the channel
    msgContent,    \* message id -> content (of every message ever created)
    reactions,     \* set of <<message id, emoji>> the bot has attached
    deletes,       \* number of messages deleted by others so far
    pc,            \* pass -> position in post_or_update_role_message
    local,         \* pass -> locals and history of the pass
    handled,       \* the last reaction event handled and the role calls it led to
    cm,            \* ChannelManager's fields
    channelMsgs,   \* the archived channel: message id -> filenames of its attachments
    fs,            \* the file system: download directory, downloaded files, artifacts
    run            \* archive run -> position, locals and history of handle_channel

\* The variables of the archive.
archiveVars == <<cm, channelMsgs, fs, run>>

\* The variables of the role message and of the reaction events.
roleVars == <<config, disk, setResult, diskBefore, rm, guildRoles, liveMsgs, msgContent,
              reactions, deletes, pc, local, handled>>

vars == <<config, disk, setResult, diskBefore, rm, guildRoles, liveMsgs, msgContent,
          reactions, deletes, pc, local, handled, cm, channelMsgs, fs, run>>

\* ------------------------------------------------------------- ConfigManager
\* ConfigManager.get(key, default) for role_message_id.
Get(cfg, key, default) ==
    IF key \in DOMAIN cfg THEN cfg[key] ELSE default

\* self.config[key] = value
SetKey(cfg, key, value) == [cfg EXCEPT ![key] = value]

\* Outcomes of save_config: the file is rewritten in full, open() fails
\* before truncating, or the write fails after open(.., "w") has truncated
\* the file.
SaveOutcomes == {"ok", "open_failed", "write_failed"}

\* save_config: the backing file after the call.
SaveConfig(cfg, file, outcome) ==
    CASE outcome = "ok" -> [intact |-> TRUE, config |-> cfg]
      [] outcome = "open_failed" -> file
      [] outcome = "write_failed" -> [intact |-> FALSE, config |-> cfg]

\* ------------------------------------------------------------- RoleManager
\* RoleManager.__init__: the fields read from the configuration.
RoleManagerInit(cfg) ==
    [dev_mode |-> cfg.dev_mode,
     rule_msg |-> cfg.default_rule_msg,
     role_message_id |-> Get(cfg, "role_message_id", 0),
     emoji_ids |-> cfg.emoji_ids,
     emoji_to_role |-> cfg.emoji_to_role]

\* The rendered marker "<:name:id>".
EmojiText(emoji_ids, key) == <<"<:", emoji_ids[key], ":", key, ">">>

\* One line of the content: "> role_name -> <:name:id>\n".
ContentLine(emoji_ids, entry) ==
    <<"line", RoleNames[entry.role_id], EmojiText(emoji_ids, entry.key)>>

\* Faulty variant of RoleResolves: the role is not looked up in the guild.
RoleResolves_Always(roles, role_id) == TRUE

\* role = channel.guild.get_role(role_id); if role:
RoleResolves(roles, role_id) == role_id \in roles

\* The loop of lines 48-51 over the entries from position i on.
RECURSIVE RenderFrom(_, _, _, _, _)
RenderFrom(content, table, emoji_ids, roles, i) ==
    IF i > Len(table) THEN content
    ELSE RenderFrom(
            IF RoleResolves(roles, table[i].role_id)
            THEN Append(content, ContentLine(emoji_ids, table[i]))
            ELSE content,
            table, emoji_ids, roles, i + 1)

\* content = self.rule_msg, then the loop.
Render(r, roles) ==
    RenderFrom(<< <<"text", r.rule_msg>> >>, r.emoji_to_role, r.emoji_ids, roles, 1)

\* Lines 33-37: the channel id of the deployment mode.
ChannelId(r, cfg) ==
    IF r.dev_mode THEN cfg.test_command_channel_id ELSE cfg.bot_command_channel_id

\* if self.role_message_id: (line 54)
HasStoredId(r) == r.role_message_id # 0

\* Faulty variant of StoreMessageId: the new id is not kept in the RoleManager.
StoreMessageId_Forgotten(r, id) == r

\* self.role_message_id = message.id (line 67)
StoreMessageId(r, id) == [r EXCEPT !.role_message_id = id]

\* if message is None: (line 65)
NeedsSend(message) == message = 0

\* Faulty variant of OnUpsertException: every HTTPException is handled as NotFound
\* is (a single except clause for both).
OnUpsertException_FallsThrough(kind, message) ==
    CASE kind \in {"NotFound", "HTTPException"} ->
            IF NeedsSend(message) THEN "send" ELSE "react"
      [] OTHER -> "raised"

\* The except clauses of lines 59-63: where the pass goes after an
\* exception of the given kind in fetch_message or edit.
OnUpsertException(kind, message) ==
    CASE kind = "NotFound" -> IF NeedsSend(message) THEN "send" ELSE "react"
      [] kind = "HTTPException" -> "returned"
      [] OTHER -> "raised"

\* Faulty variant of OnReactException: only discord.HTTPException is caught.
OnReactException_OnlyHttp(kind) ==
    CASE kind = "HTTPException" -> "continue"
      [] OTHER -> "raised"

\* The except clauses of lines 77-80: whether the loop goes on after an
\* exception of the given kind in add_reaction.
OnReactException(kind) ==
    CASE kind = "HTTPException" -> "continue"
      [] kind = "Exception" -> "continue"
      [] OTHER -> "raised"

\* ------------------------------------------------------------- initial state
\* The configuration files: a deployment sets the channel key of one mode
\* at most (which need not be the mode dev_mode selects).
Configs ==
    { c \in [dev_mode : BOOLEAN,
             test_command_channel_id : TestChannelIds,
             bot_command_channel_id : BotChannelIds,
             default_rule_msg : RuleMsgs,
             role_message_id : StoredIds,
             emoji_ids : {EmojiNames},
             emoji_to_role : BindingTables] :
        c.test_command_channel_id = 0 \/ c.bot_command_channel_id = 0 }

\* No reaction event handled yet.
NoEvent ==
    [message_id |-> 0, guild_id |-> "none", emoji_id |-> 0, user_id |-> "none",
     member |-> "none", add |-> FALSE, seen |-> FALSE, stored |-> 0,
     calls |-> <<>>, outcome |-> "none", result |-> "none"]

NoLocal ==
    [content |-> <<>>, fetchId |-> 0, message |-> 0, idx |-> 0,
     startId |-> 0, startLive |-> FALSE, startDeletes |-> 0, prior |-> {},
     sends |-> 0, sent |-> 0, edited |-> {}, attempts |-> <<>>, notFoundAt |-> "none",
     failedAt |-> "none", saved |-> "none"]

\* ------------------------------------------------------------- the archive
\* The archive runs of one behaviour (invocations of handle_channel).
Runs == {1, 2}

\* ChannelManager.channel_id as the caller has set it: 0 is None (unset),
\* 41 is a channel the client resolves, 42 one it does not.
ArchiveChannelIds == {0, 41, 42}

\* self.bot_client.get_channel(self.channel_id) (line 18); 0 is None.
GetChannel(channel_id) == IF channel_id = 41 THEN 41 ELSE 0

\* The save_file arguments of handle_channel; the first is the default.
DestFiles == {"channel_dump.json", "other.json"}

\* attachment.filename values.
FileNames == {"a.png", "1_a.png"}

\* The id of the i-th oldest message of the channel; the platform's ids
\* grow with the time of creation.
RECURSIVE MsgId(_)
MsgId(i) == IF i = 1 THEN 5 ELSE 10 * MsgId(i - 1) + 1

DecimalDigit == [d \in 0..9 |-> CASE d = 0 -> "0" [] d = 1 -> "1" [] d = 2 -> "2"
                                   [] d = 3 -> "3" [] d = 4 -> "4" [] d = 5 -> "5"
                                   [] d = 6 -> "6" [] d = 7 -> "7" [] d = 8 -> "8"
                                   [] d = 9 -> "9"]

\* The text of an integer in an f-string: f"{msg.id}" (line 56).
RECURSIVE Decimal(_)
Decimal(n) ==
    IF n < 10 THEN DecimalDigit[n] ELSE Decimal(n \div 10) \o DecimalDigit[n % 10]

\* attachment.url of the k-th attachment of message id: the platform gives
\* every attachment its own url.
Url(id, k) == "cdn/" \o Decimal(id) \o "/" \o Decimal(k)

\* The sum of the lengths of the attachment lists of a channel.
RECURSIVE TotalAttachments(_)
TotalAttachments(ch) ==
    IF DOMAIN ch = {} THEN 0
    ELSE LET id == CHOOSE m \in DOMAIN ch : TRUE
         IN  Len(ch[id]) + TotalAttachments([m \in DOMAIN ch \ {id} |-> ch[m]])

\* The channels archived: the n oldest message ids, each with a list of
\* attachment filenames.
Channels ==
    { ch \in UNION { [ {MsgId(i) : i \in 1..n} ->
                        UNION { [1..k -> FileNames] : k \in 0..MaxAttachments } ] :
                      n \in 0..MaxMsgs } :
        TotalAttachments(ch) <= MaxAttachments }

\* ChannelManager.__init__ (lines 10-14); save_file is no attribute yet.
ChannelManagerInit(channel_id) ==
    [channel_id |-> channel_id, save_path |-> "download", save_file |-> "unset"]

\* os.path.join(self.save_path, f"{msg.id}_{attachment.filename}") (line 56)
FilePath_NoId(save_path, id, filename) == save_path \o "/" \o filename

FilePath(save_path, id, filename) ==
    save_path \o "/" \o Decimal(id) \o "_" \o filename

\* Every path a download of the channel may write.
AllPaths(ch) ==
    { FilePath("download", id, f) : id \in DOMAIN ch, f \in FileNames }

\* A file that does not exist.
NoFile == [state |-> "absent", data |-> <<>>]

\* The locals of handle_channel, save_to_json and fetch_all_messages
\* before the invocation, and the history of the run.
NoRun ==
    [pc |-> "idle",          \* position in handle_channel
     arg |-> "none",         \* the save_file argument
     raw_msg |-> <<>>,       \* ids of the messages of channel.history
     msg_data |-> <<>>,      \* the records built
     download_task |-> <<>>, \* the (url, file_path) of each download_image
     dl |-> <<>>,            \* each download: pending, reading, ok, failed, raised
     touched |-> <<>>,       \* each download: it has opened its file for writing
     completed |-> <<>>,     \* the downloads that have ended, in the order they ended
     session |-> "none",     \* the aiohttp.ClientSession: none, open, closed
     wrote |-> "none",       \* the file save_to_json has opened for writing
     raisedAt |-> "none"]    \* where an exception left handle_channel

\* The archive before any invocation, for a channel and a channel id.
ArchiveInit(ch, channel_id) ==
    /\ cm = ChannelManagerInit(channel_id)
    /\ channelMsgs = ch
    /\ fs = [dir |-> FALSE,
             files |-> [p \in AllPaths(ch) |-> "absent"],
             artifacts |-> [d \in DestFiles |-> NoFile]]
    /\ run = [r \in Runs |-> NoRun]

\* ------------------------------------------------------------- initial states
\* No archive is run: the channel is empty and channel_id is not set.
Init ==
    /\ ArchiveInit(<<>>, 0)
    /\ config \in Configs
    /\ disk = [intact |-> TRUE, config |-> config]
    /\ setResult = "none"
    /\ diskBefore = disk
    /\ rm = RoleManagerInit(config)
    /\ guildRoles \in SUBSET GuildRoleIds
    /\ liveMsgs \in SUBSET (StoredIds \ {0})
    /\ (config.role_message_id = 0 => liveMsgs = {})
    /\ msgContent = [m \in (StoredIds \ {0}) |-> << <<"text", "old">> >>]
    /\ reactions = {}
    /\ deletes = 0
    /\ pc = [p \in Passes |-> "idle"]
    /\ local = [p \in Passes |-> NoLocal]
    /\ handled = NoEvent

\* ------------------------------------------------------------- the platform
\* The id the platform gives the next message sent to the channel.
NextMessageId(contentOf) ==
    1 + CHOOSE m \in DOMAIN contentOf : \A n \in DOMAIN contentOf : n <= m

\* Another user or a moderator deletes a message of the channel; a later
\* fetch_message, edit or add_reaction on it raises discord.NotFound.
Delete(m) ==
    /\ deletes < MaxDeletes
    /\ m \in liveMsgs
    /\ liveMsgs' = liveMsgs \ {m}
    /\ reactions' = { r \in reactions : r[1] # m }
    /\ deletes' = deletes + 1
    /\ UNCHANGED <<config, disk, setResult, diskBefore, rm, guildRoles, msgContent,
                   pc, local, handled, archiveVars>>

\* ------------------------------------------------------------- a pass
Terminal == {"done", "returned", "raised"}

\* if message: and the loop over emoji_to_role.keys() (lines 71-72).
AfterUpsert(message, table) ==
    IF message # 0 /\ Len(table) > 0 THEN "react" ELSE "done"

\* Faulty variant of Set: the key is set in memory and the file is never saved.
Set_NoSave(cfg, file, key, value, outcome) ==
    [config |-> SetKey(cfg, key, value), disk |-> file, raised |-> FALSE]

\* ConfigManager.set(key, value): the key is set in memory, then the file
\* is saved; an exception of save_config propagates.
Set(cfg, file, key, value, outcome) ==
    LET cfg2 == SetKey(cfg, key, value)
    IN  [config |-> cfg2,
         disk |-> SaveConfig(cfg2, file, outcome),
         raised |-> outcome # "ok"]

\* The locals when pass p starts with locals l: a coroutine that has ended
\* holds no locals, and what is recorded of an ended pass is kept until
\* the second pass after it starts.
Remembered(p, l) ==
    [q \in Passes |->
        IF q = p THEN l
        ELSE IF q < p - 1 /\ pc[q] \in Terminal THEN NoLocal
        ELSE local[q]]

\* on_ready -> post_or_update_role_message, lines 33-56 (or 33-66 without a
\* stored id): up to the first await.  Pass p is the one the p-th ready
\* event starts.
Start(p) ==
    /\ pc[p] = "idle"
    /\ \A q \in Passes : q < p => pc[q] # "idle"
    /\ \E found \in BOOLEAN :
         LET channel_id == ChannelId(rm, config)
             begun == [local[p] EXCEPT
                         !.prior = { q \in Passes : pc[q] \in Terminal },
                         !.startId = rm.role_message_id,
                         !.startLive = rm.role_message_id \in liveMsgs,
                         !.startDeletes = deletes]
         IN  IF channel_id = 0
             THEN /\ pc' = [pc EXCEPT ![p] = "raised"]
                  /\ local' = Remembered(p, begun)
             ELSE IF ~found
             THEN /\ pc' = [pc EXCEPT ![p] = "returned"]
                  /\ local' = Remembered(p, begun)
             ELSE /\ pc' = [pc EXCEPT ![p] = IF HasStoredId(rm) THEN "fetch" ELSE "send"]
                  /\ local' = Remembered(p,
                        [begun EXCEPT !.content = Render(rm, guildRoles),
                                      !.fetchId = rm.role_message_id,
                                      !.sends = IF HasStoredId(rm) THEN 0 ELSE 1])
    /\ UNCHANGED <<config, disk, setResult, diskBefore, rm, guildRoles, liveMsgs,
                   msgContent, reactions, deletes, handled, archiveVars>>

FetchOutcomes == {"ok", "NotFound", "HTTPException", "OSError"}

\* message = await channel.fetch_message(self.role_message_id) (line 56).
Fetch(p, oc) ==
    /\ pc[p] = "fetch"
    /\ oc = "ok" => local[p].fetchId \in liveMsgs
    /\ oc = "NotFound" => local[p].fetchId \notin liveMsgs
    /\ IF oc = "ok"
       THEN /\ pc' = [pc EXCEPT ![p] = "edit"]
            /\ local' = [local EXCEPT ![p].message = local[p].fetchId]
       ELSE /\ pc' = [pc EXCEPT ![p] = OnUpsertException(oc, local[p].message)]
            /\ local' = [local EXCEPT
                   ![p].notFoundAt = IF oc = "NotFound" THEN "fetch" ELSE @,
                   ![p].failedAt = IF oc \in {"HTTPException", "OSError"} THEN "fetch" ELSE @,
                   ![p].sends = IF OnUpsertException(oc, local[p].message) = "send"
                                THEN @ + 1 ELSE @]
    /\ UNCHANGED <<config, disk, setResult, diskBefore, rm, guildRoles, liveMsgs,
                   msgContent, reactions, deletes, handled, archiveVars>>

\* await message.edit(content=content) (line 57).
Edit(p, oc) ==
    /\ pc[p] = "edit"
    /\ oc = "ok" => local[p].message \in liveMsgs
    /\ oc = "NotFound" => local[p].message \notin liveMsgs
    /\ IF oc = "ok"
       THEN /\ pc' = [pc EXCEPT ![p] = AfterUpsert(local[p].message, rm.emoji_to_role)]
            /\ msgContent' = [msgContent EXCEPT ![local[p].message] = local[p].content]
            /\ local' = [local EXCEPT ![p].edited = @ \cup {local[p].message},
                                      ![p].idx = 1]
       ELSE /\ pc' = [pc EXCEPT ![p] =
                   IF OnUpsertException(oc, local[p].message) = "react"
                   THEN AfterUpsert(local[p].message, rm.emoji_to_role)
                   ELSE OnUpsertException(oc, local[p].message)]
            /\ msgContent' = msgContent
            /\ local' = [local EXCEPT
                   ![p].notFoundAt = IF oc = "NotFound" THEN "edit" ELSE @,
                   ![p].failedAt = IF oc \in {"HTTPException", "OSError"} THEN "edit" ELSE @,
                   ![p].sends = IF OnUpsertException(oc, local[p].message) = "send"
                                THEN @ + 1 ELSE @,
                   ![p].idx = 1]
    /\ UNCHANGED <<config, disk, setResult, diskBefore, rm, guildRoles, liveMsgs,
                   reactions, deletes, handled, archiveVars>>

SendOutcomes == {"ok", "HTTPException"}

\* message = await channel.send(content), then lines 67-69.
Send(p, oc, save) ==
    /\ pc[p] = "send"
    /\ IF oc = "ok"
       THEN LET new == NextMessageId(msgContent)
                set == Set(config, disk, "role_message_id", new, save)
            IN  /\ liveMsgs' = liveMsgs \cup {new}
                /\ msgContent' = [m \in DOMAIN msgContent \cup {new} |->
                                     IF m = new THEN local[p].content ELSE msgContent[m]]
                /\ rm' = StoreMessageId(rm, new)
                /\ config' = set.config
                /\ disk' = set.disk
                /\ diskBefore' = disk
                /\ setResult' = IF set.raised THEN "raised" ELSE "ok"
                /\ pc' = [pc EXCEPT ![p] =
                            IF set.raised THEN "raised"
                            ELSE AfterUpsert(new, rm.emoji_to_role)]
                /\ local' = [local EXCEPT ![p].message = new,
                                          ![p].sent = new,
                                          ![p].saved = IF set.raised THEN "raised" ELSE "ok",
                                          ![p].idx = 1]
       ELSE /\ pc' = [pc EXCEPT ![p] = "raised"]
            /\ UNCHANGED <<config, disk, setResult, diskBefore, rm, liveMsgs, msgContent,
                           local>>
    /\ UNCHANGED <<guildRoles, reactions, deletes, handled, archiveVars>>

ReactOutcomes == {"ok", "HTTPException", "Exception"}

\* One turn of the loop of lines 72-80: await message.add_reaction(emoji).
React(p, oc) ==
    /\ pc[p] = "react"
    /\ oc = "ok" => local[p].message \in liveMsgs
    /\ LET table == rm.emoji_to_role
           emoji == EmojiText(rm.emoji_ids, table[local[p].idx].key)
           goesOn == oc = "ok" \/ OnReactException(oc) = "continue"
       IN  /\ reactions' = IF oc = "ok"
                           THEN reactions \cup {<<local[p].message, emoji>>}
                           ELSE reactions
           /\ local' = [local EXCEPT ![p].attempts = Append(@, emoji),
                                     ![p].idx = @ + 1]
           /\ pc' = [pc EXCEPT ![p] =
                       IF ~goesOn THEN "raised"
                       ELSE IF local[p].idx + 1 > Len(table) THEN "done"
                       ELSE "react"]
    /\ UNCHANGED <<config, disk, setResult, diskBefore, rm, guildRoles, liveMsgs,
                   msgContent, deletes, handled, archiveVars>>

\* ------------------------------------------------------------- handle_role
\* self.bot.user
BotUser == "bot"
\* The members of the guild: guild.get_member(user_id) finds these.
GuildMembers == {"bot", "alice"}
\* user ids of reaction events ("ghost" has left the guild).
UserIds == {"bot", "alice", "ghost"}
\* guild ids of reaction events; get_guild resolves "guild" only.
GuildIds == {"guild", "other"}
\* payload.emoji.id of reaction events; 0 is None (a unicode emoji).
PayloadEmojiIds == {0, 11, 12}

\* str(payload.emoji.id)
Str(id) ==
    CASE id = 0 -> "None"
      [] id = 11 -> "11"
      [] id = 12 -> "12"

\* self.bot.get_guild(payload.guild_id)
GetGuild(guild_id) == IF guild_id = "guild" THEN "guild" ELSE "none"

\* guild.get_member(payload.user_id)
GetMember(user_id) == IF user_id \in GuildMembers THEN user_id ELSE "none"

\* Faulty variant of IsSelf: the bot's own reactions are not told apart.
IsSelf_Never(member) == FALSE

\* if member == self.bot.user: (line 113)
IsSelf(member) == member = BotUser

\* self.emoji_to_role.keys()
Keys(table) == { table[i].key : i \in DOMAIN table }

\* self.emoji_to_role[emoji]
Entry(table, emoji) == table[CHOOSE i \in DOMAIN table : table[i].key = emoji]

\* handle_role, lines 83-121: the role calls the handler issues for a
\* payload, in order (none after an early return).
RoleCalls(r, roles, payload, add) ==
    IF payload.message_id # r.role_message_id THEN <<>>
    ELSE IF GetGuild(payload.guild_id) = "none" THEN <<>>
    ELSE IF Str(payload.emoji_id) \notin Keys(r.emoji_to_role) THEN <<>>
    ELSE LET role_id == Entry(r.emoji_to_role, Str(payload.emoji_id)).role_id
             member == IF add THEN payload.member ELSE GetMember(payload.user_id)
         IN  IF role_id = 0 THEN <<>>
             ELSE IF ~RoleResolves(roles, role_id) THEN <<>>
             ELSE IF member = "none" THEN <<>>
             ELSE IF IsSelf(member) THEN <<>>
             ELSE << [op |-> IF add THEN "add_roles" ELSE "remove_roles",
                      role |-> role_id, member |-> member] >>

\* Faulty variant of OnRoleException: the failure of the call is not
\* caught.
OnRoleException_Uncaught(kind) == "raised"

\* The except clause of lines 123-124: how handle_role ends after an
\* exception of the given kind in add_roles or remove_roles.
OnRoleException(kind) ==
    CASE kind = "HTTPException" -> "returned"
      [] OTHER -> "raised"

\* The payloads of reaction events.
Payloads ==
    [message_id : DOMAIN msgContent \cup {NextMessageId(msgContent)},
     guild_id : GuildIds, emoji_id : PayloadEmojiIds, user_id : UserIds,
     member : UserIds \cup {"none"}, add : BOOLEAN]

\* The payloads the platform delivers: payload.member is the reacting user
\* on a reaction-add in a guild and None otherwise, and a reaction-add of
\* the bot itself is the echo of a marker the bot has attached.
Deliverable(e) ==
    /\ e.member \in {"none", e.user_id}
    /\ ~e.add => e.member = "none"
    /\ (e.add /\ e.user_id = BotUser) =>
          /\ Str(e.emoji_id) \in EmojiKeys
          /\ <<e.message_id, EmojiText(rm.emoji_ids, Str(e.emoji_id))>> \in reactions

\* How member.add_roles / member.remove_roles ends: the request succeeds,
\* the platform answers with an error status (discord.HTTPException, which
\* includes Forbidden and the rate limit), or the request never gets an
\* answer (a connection error, raised as OSError by the network layer).
RoleOutcomes == {"ok", "HTTPException", "OSError"}

\* on_raw_reaction_add / on_raw_reaction_remove -> handle_role(payload, add).
HandleRole(payload, oc) ==
    /\ Deliverable(payload)
    /\ RoleCalls(rm, guildRoles, payload, payload.add) = <<>> => oc = "ok"
    /\ LET calls == RoleCalls(rm, guildRoles, payload, payload.add)
       IN  handled' = [message_id |-> payload.message_id,
                       guild_id |-> payload.guild_id,
                       emoji_id |-> payload.emoji_id,
                       user_id |-> payload.user_id,
                       member |-> payload.member,
                       add |-> payload.add,
                       seen |-> TRUE,
                       stored |-> rm.role_message_id,
                       calls |-> calls,
                       outcome |-> IF calls = <<>> THEN "none" ELSE oc,
                       result |-> IF calls = <<>> \/ oc = "ok" THEN "returned"
                                  ELSE OnRoleException(oc)]
    /\ UNCHANGED <<config, disk, setResult, diskBefore, rm, guildRoles, liveMsgs,
                   msgContent, reactions, deletes, pc, local, archiveVars>>

\* The platform delivers a reaction event.  handle_role writes no field of
\* the bot, so one event per behaviour, delivered at any point of it,
\* stands for every event of a run.
DeliverReaction ==
    /\ ~handled.seen
    /\ \E payload \in Payloads, oc \in RoleOutcomes : HandleRole(payload, oc)

\* ------------------------------------------------------------- ChannelManager
\* The elements of a set of integers, smallest first.
RECURSIVE Ascending(_)
Ascending(S) ==
    IF S = {} THEN <<>>
    ELSE LET m == CHOOSE x \in S : \A y \in S : x <= y
         IN  <<m>> \o Ascending(S \ {m})

\* The elements of a set of integers, largest first.
RECURSIVE Descending(_)
Descending(S) ==
    IF S = {} THEN <<>>
    ELSE LET m == CHOOSE x \in S : \A y \in S : x >= y
         IN  <<m>> \o Descending(S \ {m})

\* Faulty variant of History: the history is read newest first.
History_NewestFirst(ch) == Descending(DOMAIN ch)

\* [msg async for msg in channel.history(limit=None, oldest_first=True)]
\* (line 36): the ids of all messages of the channel, oldest first.
History(ch) == Ascending(DOMAIN ch)

\* msg_info of one message (lines 46-61).  author, timestamp and content
\* are copies of the message's fields and are left out.
MsgInfo(save_path, ch, id) ==
    [id |-> id,
     attachments |-> [k \in 1..Len(ch[id]) |->
                        [url |-> Url(id, k),
                         save_as |-> FilePath(save_path, id, ch[id][k])]]]

\* msg_data after the loop of lines 45-64.
MsgData(save_path, ch, raw) ==
    [i \in 1..Len(raw) |-> MsgInfo(save_path, ch, raw[i])]

\* download_task after the loop of lines 45-64: the (url, file_path) of
\* one download_image per attachment, in the order of the loop.
RECURSIVE DownloadTasks(_)
DownloadTasks(data) ==
    IF data = <<>> THEN <<>>
    ELSE [k \in DOMAIN Head(data).attachments |->
             [url |-> Head(data).attachments[k].url,
              file_path |-> Head(data).attachments[k].save_as]]
         \o DownloadTasks(Tail(data))

\* An exception left handle_channel at the given place.
Raised(l, place) == [l EXCEPT !.pc = "raised", !.raisedAt = place]

\* handle_channel(save_file) up to its first suspension (lines 77-83, 71,
\* 33, 18): the check of channel_id, the download directory, the
\* assignment of self.save_file and get_channel; channel.history on an
\* unresolved channel (None) raises AttributeError.
Invoke(r, save_file, mkdirOk) ==
    /\ run[r].pc = "idle"
    /\ \A q \in Runs : q < r => run[q].pc # "idle"
    /\ (cm.channel_id = 0 \/ fs.dir) => mkdirOk
    /\ LET l == [run[r] EXCEPT !.arg = save_file]
       IN  IF cm.channel_id = 0
           THEN /\ run' = [run EXCEPT ![r] = [l EXCEPT !.pc = "returned"]]
                /\ UNCHANGED <<cm, fs>>
           ELSE IF ~fs.dir /\ ~mkdirOk
           THEN /\ run' = [run EXCEPT ![r] = Raised(l, "mkdir")]
                /\ UNCHANGED <<cm, fs>>
           ELSE /\ fs' = [fs EXCEPT !.dir = TRUE]
                /\ cm' = [cm EXCEPT !.save_file = save_file]
                /\ run' = [run EXCEPT ![r] =
                              IF GetChannel(cm.channel_id) = 0
                              THEN Raised(l, "history")
                              ELSE [l EXCEPT !.pc = "history"]]
    /\ UNCHANGED <<channelMsgs, roleVars>>

HistoryOutcomes == {"ok", "HTTPException"}

\* The history has been read (line 36); the session is opened, the records
\* and the download coroutines are built and gather starts them (lines
\* 41-66).  No await lies between the end of the history and gather.
FetchHistory(r, oc) ==
    /\ run[r].pc = "history"
    /\ run' = [run EXCEPT ![r] =
                 IF oc # "ok" THEN Raised(run[r], "history")
                 ELSE LET raw == History(channelMsgs)
                          data == MsgData(cm.save_path, channelMsgs, raw)
                          tasks == DownloadTasks(data)
                      IN  [run[r] EXCEPT !.pc = "gather",
                                         !.raw_msg = raw,
                                         !.msg_data = data,
                                         !.download_task = tasks,
                                         !.dl = [i \in DOMAIN tasks |-> "pending"],
                                         !.touched = [i \in DOMAIN tasks |-> FALSE],
                                         !.session = "open"]]
    /\ UNCHANGED <<cm, channelMsgs, fs, roleVars>>

\* Faulty variant of OnDownloadException: the exception leaves
\* download_image.
OnDownloadException_Uncaught(kind) == "raised"

\* except Exception (lines 28-29): every exception of session.get, open,
\* response.read and f.write is logged and download_image returns.
OnDownloadException(kind) == "failed"

GetOutcomes == {"200", "404", "ClientError"}

\* download_image up to response.read (lines 21-25): session.get answers or
\* fails; on status 200 the file is opened with mode 'wb', which creates or
\* truncates it, before the body is read.  A closed session refuses the
\* request.
Connect(r, i, oc, openOk) ==
    /\ i \in DOMAIN run[r].dl
    /\ run[r].dl[i] = "pending"
    /\ run[r].session = "closed" => oc = "ClientError"
    /\ oc # "200" => openOk
    /\ LET path == run[r].download_task[i].file_path
       IN  CASE oc = "200" /\ openOk ->
                  /\ fs' = [fs EXCEPT !.files[path] = "empty"]
                  /\ run' = [run EXCEPT ![r].dl[i] = "reading",
                                        ![r].touched[i] = TRUE]
             [] oc = "200" /\ ~openOk ->
                  /\ run' = [run EXCEPT ![r].dl[i] = OnDownloadException("OSError"),
                                        ![r].completed = Append(@, i)]
                  /\ UNCHANGED fs
             [] oc = "404" ->
                  /\ run' = [run EXCEPT ![r].dl[i] = "failed",
                                        ![r].completed = Append(@, i)]
                  /\ UNCHANGED fs
             [] oc = "ClientError" ->
                  /\ run' = [run EXCEPT ![r].dl[i] = OnDownloadException("ClientError"),
                                        ![r].completed = Append(@, i)]
                  /\ UNCHANGED fs
    /\ UNCHANGED <<cm, channelMsgs, roleVars>>

ReadOutcomes == {"ok", "ClientError"}

\* f.write(await response.read()) (line 25): the body arrives and is
\* written, or the read fails and leaves the opened file empty.
Read(r, i, oc) ==
    /\ i \in DOMAIN run[r].dl
    /\ run[r].dl[i] = "reading"
    /\ LET path == run[r].download_task[i].file_path
       IN  IF oc = "ok"
           THEN /\ fs' = [fs EXCEPT !.files[path] = run[r].download_task[i].url]
                /\ run' = [run EXCEPT ![r].dl[i] = "ok",
                                      ![r].completed = Append(@, i)]
           ELSE /\ run' = [run EXCEPT ![r].dl[i] = OnDownloadException(oc),
                                      ![r].completed = Append(@, i)]
                /\ UNCHANGED fs
    /\ UNCHANGED <<cm, channelMsgs, roleVars>>

\* Faulty variant of GatherReturns: the downloads are started and not
\* awaited.
GatherReturns_NotAwaited(dl) == TRUE

\* asyncio.gather(*download_task) returns normally (line 66) when every
\* download has returned.
GatherReturns(dl) == \A i \in DOMAIN dl : dl[i] \in {"ok", "failed"}

\* await asyncio.gather(*download_task) returns (line 66) and the session
\* is closed by the end of the async with block: gather returns when every
\* download has returned, and raises as soon as one download raises.
Gathered(r) ==
    /\ run[r].pc = "gather"
    /\ IF \E i \in DOMAIN run[r].dl : run[r].dl[i] = "raised"
       THEN run' = [run EXCEPT ![r] = [Raised(run[r], "gather") EXCEPT
                                           !.session = "closed"]]
       ELSE /\ GatherReturns(run[r].dl)
            /\ run' = [run EXCEPT ![r].pc = "save", ![r].session = "closed"]
    /\ UNCHANGED <<cm, channelMsgs, fs, roleVars>>

\* save_to_json after fetch_all_messages (lines 72-73): the file named by
\* self.save_file is opened with mode 'w' and the records are dumped.
Save(r, oc) ==
    /\ run[r].pc = "save"
    /\ LET file == cm.save_file
       IN  CASE oc = "ok" ->
                  /\ fs' = [fs EXCEPT !.artifacts[file] =
                                [state |-> "written", data |-> run[r].msg_data]]
                  /\ run' = [run EXCEPT ![r].pc = "done", ![r].wrote = file]
             [] oc = "open_failed" ->
                  /\ run' = [run EXCEPT ![r] = Raised(run[r], "save")]
                  /\ UNCHANGED fs
             [] oc = "write_failed" ->
                  /\ fs' = [fs EXCEPT !.artifacts[file] =
                                [state |-> "damaged", data |-> <<>>]]
                  /\ run' = [run EXCEPT ![r] =
                                [Raised(run[r], "save") EXCEPT !.wrote = file]]
    /\ UNCHANGED <<cm, channelMsgs, roleVars>>

\* ------------------------------------------------------------- specifications
\* A ready event that arrives while no pass is in flight.
StartAlone(p) ==
    /\ \A q \in Passes : pc[q] \in Terminal \cup {"idle"}
    /\ Start(p)

\* The passes of successive ready events, each finished before the next
\* starts, with message deletions and failures of the platform and of the
\* file system.
Next ==
    \/ \E p \in Passes : StartAlone(p)
    \/ \E p \in Passes, oc \in FetchOutcomes : Fetch(p, oc)
    \/ \E p \in Passes, oc \in FetchOutcomes : Edit(p, oc)
    \/ \E p \in Passes, oc \in SendOutcomes, save \in SaveOutcomes : Send(p, oc, save)
    \/ \E p \in Passes, oc \in ReactOutcomes : React(p, oc)
    \/ \E m \in DOMAIN msgContent : Delete(m)

Spec == Init /\ [][Next]_vars

\* Ready events may arrive while an earlier pass is suspended in an await
\* (discord.py runs every event handler as its own task).
NextRace ==
    \/ \E p \in Passes : Start(p)
    \/ \E p \in Passes, oc \in FetchOutcomes : Fetch(p, oc)
    \/ \E p \in Passes, oc \in FetchOutcomes : Edit(p, oc)
    \/ \E p \in Passes, oc \in SendOutcomes, save \in SaveOutcomes : Send(p, oc, save)
    \/ \E p \in Passes, oc \in ReactOutcomes : React(p, oc)
    \/ \E m \in DOMAIN msgContent : Delete(m)

SpecRace == Init /\ [][NextRace]_vars

\* The first pass and the reaction events delivered before, during and
\* after it.
FirstPass == {p \in Passes : \A q \in Passes : p <= q}

NextRole ==
    \/ \E p \in FirstPass : StartAlone(p)
    \/ \E p \in FirstPass, oc \in FetchOutcomes : Fetch(p, oc)
    \/ \E p \in FirstPass, oc \in FetchOutcomes : Edit(p, oc)
    \/ \E p \in FirstPass, oc \in SendOutcomes, save \in SaveOutcomes : Send(p, oc, save)
    \/ \E p \in FirstPass, oc \in ReactOutcomes : React(p, oc)
    \/ DeliverReaction

SpecRole == Init /\ [][NextRole]_vars

\* The role message is left alone: one configuration, no pass, no event.
RolesIdle ==
    /\ config = CHOOSE c \in Configs : c.role_message_id = 0
    /\ disk = [intact |-> TRUE, config |-> config]
    /\ setResult = "none"
    /\ diskBefore = disk
    /\ rm = RoleManagerInit(config)
    /\ guildRoles = {}
    /\ liveMsgs = {}
    /\ msgContent = [m \in (StoredIds \ {0}) |-> << <<"text", "old">> >>]
    /\ reactions = {}
    /\ deletes = 0
    /\ pc = [p \in Passes |-> "idle"]
    /\ local = [p \in Passes |-> NoLocal]
    /\ handled = NoEvent

\* An archive of any channel, with channel_id unset, resolved or
\* unresolved.
InitArchive ==
    /\ \E ch \in Channels, id \in ArchiveChannelIds : ArchiveInit(ch, id)
    /\ RolesIdle

\* One archive run.
FirstRun == {r \in Runs : \A q \in Runs : r <= q}

NextArchive ==
    \/ \E r \in FirstRun, f \in DestFiles, ok \in BOOLEAN : Invoke(r, f, ok)
    \/ \E r \in FirstRun, oc \in HistoryOutcomes : FetchHistory(r, oc)
    \/ \E r \in FirstRun, i \in 1..MaxAttachments, oc \in GetOutcomes, ok \in BOOLEAN :
          Connect(r, i, oc, ok)
    \/ \E r \in FirstRun, i \in 1..MaxAttachments, oc \in ReadOutcomes : Read(r, i, oc)
    \/ \E r \in FirstRun : Gathered(r)
    \/ \E r \in FirstRun, oc \in SaveOutcomes : Save(r, oc)

SpecArchive == InitArchive /\ [][NextArchive]_vars

\* Archive runs on one ChannelManager that interleave at their awaits
\* (each command is handled in its own task).
NextArchiveRace ==
    \/ \E r \in Runs, f \in DestFiles, ok \in BOOLEAN : Invoke(r, f, ok)
    \/ \E r \in Runs, oc \in HistoryOutcomes : FetchHistory(r, oc)
    \/ \E r \in Runs, i \in 1..MaxAttachments, oc \in GetOutcomes, ok \in BOOLEAN :
          Connect(r, i, oc, ok)
    \/ \E r \in Runs, i \in 1..MaxAttachments, oc \in ReadOutcomes : Read(r, i, oc)
    \/ \E r \in Runs : Gathered(r)
    \/ \E r \in Runs, oc \in SaveOutcomes : Save(r, oc)

SpecArchiveRace == InitArchive /\ [][NextArchiveRace]_vars

\* ------------------------------------------------------------- properties
\* The pass ran to its end and its fetch, edit, send and save all succeeded.
UpsertOk(p) ==
    /\ pc[p] = "done"
    /\ local[p].notFoundAt = "none"
    /\ (local[p].edited # {} \/ local[p].sent # 0)

\* Pass q is the pass after p and started when p had ended.
Follows(p, q) == q = p + 1 /\ p \in local[q].prior /\ pc[q] # "idle"

\* No message has been deleted since pass p started.
NoDeleteSince(p) == deletes = local[p].startDeletes

\* The backing file holds a whole configuration with this role_message_id.
Persisted(id) == disk.intact /\ disk.config.role_message_id = id

\* C1: at most one canonical message is live in every reachable state,
\* also when two passes interleave at their awaits.
C1_AtMostOneLive == Cardinality(liveMsgs) <= 1

\* C2: two passes run one after the other, from no stored id or the id of
\* an existing message, with every call succeeding, leave one stored
\* message id and one live message, render the same content, and the
\* second pass edits and does not send.
C2_Idempotent ==
    \A p, q \in Passes :
        ( /\ Follows(p, q)
          /\ UpsertOk(p) /\ UpsertOk(q)
          /\ (local[p].startId = 0 \/ local[p].startLive)
          /\ NoDeleteSince(p) )
        => /\ local[q].sends = 0 /\ local[q].sent = 0
           /\ local[q].edited = {local[p].message}
           /\ local[q].content = local[p].content
           /\ msgContent[local[p].message] = local[p].content
           /\ rm.role_message_id = local[p].message
           /\ config.role_message_id = local[p].message
           /\ liveMsgs = {local[p].message}

\* Witness of C2: the first pass created the message, the second edited it.
C2_Witness ==
    \E p, q \in Passes :
        /\ Follows(p, q) /\ UpsertOk(p) /\ UpsertOk(q) /\ NoDeleteSince(p)
        /\ local[p].startId = 0 /\ local[p].sent # 0
        /\ local[q].edited = {local[p].sent}

\* C3: a pass that starts with the stored id of a deleted message issues
\* exactly one send, stores and persists the new id, and the next pass
\* edits the new message and issues no send.
C3_Recovery ==
    \A p \in Passes :
        ( /\ pc[p] = "done"
          /\ local[p].startId # 0 /\ ~local[p].startLive
          /\ NoDeleteSince(p) )
        => /\ local[p].sends = 1
           /\ local[p].sent # 0 /\ local[p].sent # local[p].startId
           /\ rm.role_message_id = local[p].sent
           /\ config.role_message_id = local[p].sent
           /\ Persisted(local[p].sent)
           /\ \A q \in Passes :
                 Follows(p, q) =>
                    /\ local[q].sends = 0
                    /\ UpsertOk(q) => local[q].edited = {local[p].sent}

\* Witness of C3: the stale id was replaced and the next pass edited the
\* new message.
C3_Witness ==
    \E p, q \in Passes :
        /\ Follows(p, q) /\ pc[p] = "done" /\ UpsertOk(q) /\ NoDeleteSince(p)
        /\ local[p].startId # 0 /\ ~local[p].startLive
        /\ local[p].notFoundAt = "fetch"
        /\ local[q].edited = {local[p].sent}

\* C4: after a not-found at fetch_message or at edit the pass sends a new
\* message, whose id replaces the stored id, and attempts no reaction on
\* the missing message.
C4_NotFoundCreates ==
    \A p \in Passes :
        local[p].notFoundAt # "none" =>
            /\ local[p].sends = 1
            /\ pc[p] # "returned"
            /\ pc[p] \in {"react", "done"} =>
                  /\ local[p].sent # 0
                  /\ local[p].message = local[p].sent
                  /\ rm.role_message_id = local[p].sent
\* C5: an HTTPException other than not-found in fetch_message or edit ends
\* the pass at once: nothing is sent, no reaction is attempted, and the
\* stored id (in memory and in the file), the messages and their content
\* are as they were.
C5_HttpErrorAborts ==
    /\ [](\A p \in Passes :
            local[p].failedAt # "none" =>
               /\ pc[p] \in {"returned", "raised"}
               /\ local[p].sends = 0 /\ local[p].sent = 0
               /\ local[p].attempts = <<>>)
    /\ [][\A p \in Passes :
            (local[p].failedAt = "none" /\ local'[p].failedAt # "none") =>
               /\ pc'[p] \in {"returned", "raised"}
               /\ UNCHANGED <<rm, config, disk, liveMsgs, msgContent, reactions>>]_vars

\* Witness of C5: the edit of the live stored message failed.
C5_Witness ==
    \E p \in Passes :
        /\ local[p].failedAt = "edit"
        /\ local[p].message \in liveMsgs
        /\ rm.role_message_id = local[p].message

\* C6: after ConfigManager.set the file holds the whole new configuration
\* if the call returned, and what it held before if the call raised.
C6_SetAtomic ==
    /\ setResult = "ok" => disk = [intact |-> TRUE, config |-> config]
    /\ setResult = "raised" => disk = diskBefore

\* C7: the id held in memory, by the RoleManager and by the configuration,
\* is the id the backing file holds.
C7_PersistedBeforeAuthoritative ==
    /\ Persisted(rm.role_message_id)
    /\ Persisted(config.role_message_id)

\* The pass has rendered its content.
Rendered(p) == local[p].content # <<>>

\* The preamble followed by one line for each entry of the sequence.
PreambleAndLines(entries) ==
    << <<"text", rm.rule_msg>> >> \o
    [i \in 1..Len(entries) |-> ContentLine(rm.emoji_ids, entries[i])]

\* C8 as stated: the content is the preamble and one line per entry of
\* emoji_to_role, in table order.
C8_OneLinePerBinding ==
    \A p \in Passes :
        Rendered(p) => local[p].content = PreambleAndLines(rm.emoji_to_role)

\* C8 as amended: the content is the preamble and one line per entry of
\* emoji_to_role whose role_id resolves in the guild, in table order.
C8_OneLinePerResolvedBinding ==
    \A p \in Passes :
        Rendered(p) =>
            local[p].content =
                PreambleAndLines(SelectSeq(rm.emoji_to_role,
                                           LAMBDA e : e.role_id \in guildRoles))

\* Witness of C8: of two bindings one is rendered and one is left out.
C8_Witness ==
    \E p \in Passes :
        /\ Rendered(p)
        /\ Len(rm.emoji_to_role) = 2
        /\ Len(local[p].content) = 2

\* The markers of all bindings, in table order.
AllMarkers ==
    [i \in 1..Len(rm.emoji_to_role) |->
        EmojiText(rm.emoji_ids, rm.emoji_to_role[i].key)]

\* The attempts of a pass: none before the edit or create has completed,
\* always a prefix of the markers in table order, and all of them once a
\* pass for which settled holds has left the loop, which ends normally.
MarkersAttempted(p, settled) ==
    /\ pc[p] \in {"idle", "fetch", "edit", "send"} => local[p].attempts = <<>>
    /\ Len(local[p].attempts) <= Len(AllMarkers)
    /\ local[p].attempts = SubSeq(AllMarkers, 1, Len(local[p].attempts))
    /\ (settled /\ pc[p] # "react") =>
          /\ pc[p] = "done"
          /\ local[p].attempts = AllMarkers

\* C9 as stated: every pass that edited or created the message attempts
\* every marker once, in table order, whatever attempts fail, and does
\* not fail.
C9_MarkersForEverySettledPass ==
    \A p \in Passes :
        MarkersAttempted(p, local[p].edited # {} \/ local[p].sent # 0)

\* C9 as amended: every pass that edited the message, or created it and
\* persisted its id, attempts every marker once, in table order, whatever
\* attempts fail, and does not fail; a pass whose ConfigManager.set raised
\* after the create has failed without an attempt.
C9_MarkersForEveryPersistedPass ==
    \A p \in Passes :
        /\ MarkersAttempted(p, local[p].edited # {} \/ local[p].saved = "ok")
        /\ local[p].saved = "raised" =>
              pc[p] = "raised" /\ local[p].attempts = <<>>

\* Witness of C9: the first attempt failed on a live message and the
\* second was made and succeeded.
C9_Witness ==
    \E p \in Passes :
        /\ pc[p] = "done"
        /\ local[p].message \in liveMsgs
        /\ Len(AllMarkers) = 2
        /\ local[p].attempts = AllMarkers
        /\ <<local[p].message, AllMarkers[1]>> \notin reactions
        /\ <<local[p].message, AllMarkers[2]>> \in reactions

\* The member handle_role acts on: payload.member on a reaction-add, the
\* guild's member of payload.user_id on a reaction-remove.
ActingMember(h) ==
    IF h.add THEN h.member
    ELSE IF h.user_id \in GuildMembers THEN h.user_id ELSE "none"

\* The marker of the event is bound to a role that resolves in the guild.
BoundToResolvedRole(h) ==
    \E i \in DOMAIN rm.emoji_to_role :
        /\ rm.emoji_to_role[i].key = Str(h.emoji_id)
        /\ rm.emoji_to_role[i].role_id \in guildRoles

\* C10: no add_roles and no remove_roles call is issued for an event on
\* another message than the stored one, in an unresolved guild, with an
\* unbound marker, with a role that does not resolve, with an unresolved
\* member, or of the bot itself.
C10_NoRoleCall ==
    ( /\ handled.seen
      /\ \/ handled.message_id # handled.stored
         \/ handled.guild_id # "guild"
         \/ ~BoundToResolvedRole(handled)
         \/ ActingMember(handled) = "none"
         \/ ActingMember(handled) = "bot" )
    => handled.calls = <<>> /\ handled.result = "returned"

\* Witness of C10: the echo of a marker the bot attached to the canonical
\* message, bound to a role of the guild, led to no call.
C10_Witness ==
    /\ handled.seen /\ handled.add
    /\ handled.user_id = "bot" /\ handled.member = "bot"
    /\ handled.message_id = handled.stored
    /\ handled.guild_id = "guild"
    /\ BoundToResolvedRole(handled)
    /\ handled.calls = <<>>

\* The event is on the canonical message, in the guild, with a marker
\* bound to a role of the guild and a resolvable member other than the bot.
GrantOrRevoke(h) ==
    /\ h.seen
    /\ h.message_id = h.stored
    /\ h.guild_id = "guild"
    /\ BoundToResolvedRole(h)
    /\ ActingMember(h) \notin {"none", "bot"}

Invoked(r) == run[r].pc # "idle"

\* The downloads of run r.
Downloads(r) == DOMAIN run[r].download_task

\* Every download of run r has ended, with or without success.
AllEnded(r) == \A i \in Downloads(r) : run[r].dl[i] \in {"ok", "failed"}

\* The artifact run r has written.
Artifact(r) == fs.artifacts[run[r].wrote]

\* C12: a run invoked while channel_id is unset ends with an error raised
\* to its caller, and fetches no history, starts no download and writes no
\* artifact.
C12_UnsetChannelRaises ==
    \A r \in Runs :
        (Invoked(r) /\ cm.channel_id = 0)
        => /\ run[r].pc = "raised"
           /\ run[r].raw_msg = <<>> /\ run[r].session = "none"
           /\ run[r].dl = <<>> /\ run[r].wrote = "none"

\* C13: whichever downloads fail, no exception of a download leaves the
\* run; the run reaches the write of the artifact only when every download
\* has ended; and a completed run has written one record per message of
\* the channel with the url and path of every attachment, and every
\* successful download has written its file, which holds its body when no
\* other download of the run has the same path.
C13_PartialFailureIsolation ==
    \A r \in Runs :
        /\ run[r].raisedAt \in {"none", "mkdir", "history", "save"}
        /\ (run[r].pc \in {"save", "done"} \/ run[r].raisedAt = "save") => AllEnded(r)
        /\ run[r].pc = "done" =>
              /\ Artifact(r).state = "written"
              /\ Len(Artifact(r).data) = Cardinality(DOMAIN channelMsgs)
              /\ \A id \in DOMAIN channelMsgs :
                    \E n \in DOMAIN Artifact(r).data :
                        /\ Artifact(r).data[n].id = id
                        /\ Len(Artifact(r).data[n].attachments) = Len(channelMsgs[id])
                        /\ \A k \in DOMAIN channelMsgs[id] :
                              /\ Artifact(r).data[n].attachments[k].url = Url(id, k)
                              /\ Artifact(r).data[n].attachments[k].save_as \in
                                    DOMAIN fs.files
              /\ \A i \in Downloads(r) :
                    run[r].dl[i] = "ok" =>
                        /\ run[r].touched[i]
                        /\ fs.files[run[r].download_task[i].file_path] # "absent"
                        /\ (\A j \in Downloads(r) \ {i} :
                                run[r].download_task[j].file_path #
                                    run[r].download_task[i].file_path)
                           => fs.files[run[r].download_task[i].file_path] =
                                  run[r].download_task[i].url

\* Witness of C13: a completed run with two messages, one download failed
\* and one successful whose file holds its body.
C13_Witness ==
    \E r \in Runs :
        /\ run[r].pc = "done"
        /\ Len(Artifact(r).data) = 2
        /\ \E i, j \in Downloads(r) :
              /\ run[r].dl[i] = "failed"
              /\ run[r].dl[j] = "ok"
              /\ fs.files[run[r].download_task[j].file_path] =
                    run[r].download_task[j].url

\* C14: every attachment record of the artifact carries the outcome of its
\* download, failed exactly when the download did not succeed.
C14_OutcomeRecorded ==
    \A r \in Runs :
        run[r].pc = "done" =>
            \A n \in DOMAIN Artifact(r).data :
                \A k \in DOMAIN Artifact(r).data[n].attachments :
                    LET a == Artifact(r).data[n].attachments[k]
                    IN  /\ "outcome" \in DOMAIN a
                        /\ \A i \in Downloads(r) :
                              run[r].download_task[i].url = a.url =>
                                  (a.outcome = "failed" <=> run[r].dl[i] # "ok")

\* The filename of the attachment a record of the artifact stands for.
FilenameOf(id, k) == channelMsgs[id][k]

\* C15: the artifact holds exactly one record per message of the channel,
\* oldest first, and the attachments of each record in the order of the
\* message, whatever the order in which the downloads ended.
C15_ChronologicalOrder ==
    \A r \in Runs :
        run[r].pc = "done" =>
            LET data == Artifact(r).data
            IN  /\ Len(data) = Cardinality(DOMAIN channelMsgs)
                /\ {data[n].id : n \in DOMAIN data} = DOMAIN channelMsgs
                /\ \A m, n \in DOMAIN data : m < n => data[m].id < data[n].id
                /\ \A n \in DOMAIN data :
                      /\ Len(data[n].attachments) = Len(channelMsgs[data[n].id])
                      /\ \A k \in DOMAIN data[n].attachments :
                            data[n].attachments[k].url = Url(data[n].id, k)

\* Witness of C15: the download of the newer message ended before the
\* download of the older one, and the artifact has been written.
C15_Witness ==
    \E r \in Runs :
        /\ run[r].pc = "done"
        /\ Len(Artifact(r).data) = 2
        /\ run[r].completed = <<2, 1>>
        /\ Len(Artifact(r).data[1].attachments) = 1
        /\ Len(Artifact(r).data[2].attachments) = 1

\* C16: two attachments with the same filename on two different messages
\* have different paths, the path is determined by message id and
\* filename, and when both downloads succeed neither file holds the body
\* of the other attachment.
C16_DistinctAcrossMessages ==
    \A r \in Runs :
        \A m, n \in DOMAIN run[r].msg_data :
            \A k \in DOMAIN run[r].msg_data[m].attachments :
                \A j \in DOMAIN run[r].msg_data[n].attachments :
                    LET a == run[r].msg_data[m].attachments[k]
                        b == run[r].msg_data[n].attachments[j]
                        ida == run[r].msg_data[m].id
                        idb == run[r].msg_data[n].id
                        same == FilenameOf(ida, k) = FilenameOf(idb, j)
                    IN  /\ (ida = idb /\ same) => a.save_as = b.save_as
                        /\ (ida # idb /\ same) =>
                              /\ a.save_as # b.save_as
                              /\ fs.files[a.save_as] # b.url
                              /\ fs.files[b.save_as] # a.url

\* Witness of C16: two messages each with an attachment named a.png, both
\* downloaded, each file holding its own body.
C16_Witness ==
    \E r \in Runs :
        /\ run[r].pc = "done"
        /\ Len(run[r].msg_data) = 2
        /\ \A n \in {1, 2} :
              /\ Len(run[r].msg_data[n].attachments) = 1
              /\ FilenameOf(run[r].msg_data[n].id, 1) = "a.png"
              /\ fs.files[run[r].msg_data[n].attachments[1].save_as] =
                    run[r].msg_data[n].attachments[1].url

\* C17: in every state of a run, a download has started only when the
\* history has been read, the session is closed only when every download
\* has ended, and the artifact is written only when the session is closed
\* and no download is in flight.
C17_RunOrdering ==
    \A r \in Runs :
        /\ (\E i \in DOMAIN run[r].dl : run[r].dl[i] # "pending") =>
              /\ run[r].pc \notin {"idle", "history"}
              /\ Len(run[r].raw_msg) = Cardinality(DOMAIN channelMsgs)
        /\ run[r].pc = "history" => run[r].dl = <<>> /\ run[r].session = "none"
        /\ run[r].session = "closed" => AllEnded(r)
        /\ run[r].wrote # "none" => run[r].session = "closed" /\ AllEnded(r)
        /\ run[r].pc \in {"save", "done"} => run[r].session = "closed"

\* Witness of C17: the artifact is written after two downloads, one
\* successful and one failed.
C17_Witness ==
    \E r \in Runs :
        /\ run[r].pc = "done" /\ run[r].wrote # "none"
        /\ run[r].session = "closed"
        /\ \E i, j \in Downloads(r) : run[r].dl[i] = "ok" /\ run[r].dl[j] = "failed"

\* C18: the downloads of one run have pairwise different paths.
C18_PairwiseDistinctPaths ==
    \A r \in Runs :
        \A i, j \in Downloads(r) :
            i # j => run[r].download_task[i].file_path # run[r].download_task[j].file_path

\* C19: a download that has failed has not opened its file for writing, so
\* it has neither created nor truncated it.
C19_FailedDownloadLeavesFile ==
    \A r \in Runs :
        \A i \in Downloads(r) :
            run[r].dl[i] = "failed" => ~run[r].touched[i]

\* C20: a run in flight finds in self.save_file the destination it was
\* invoked with, and a run that has written has written the destination it
\* was invoked with.
C20_OwnDestination ==
    \A r \in Runs :
        /\ run[r].pc \in {"history", "gather", "save"} => cm.save_file = run[r].arg
        /\ run[r].wrote # "none" => run[r].wrote = run[r].arg

====
